---- MODULE Spec2Model ----
(***************************************************************************)
(* A model of the flashcard application of src/flashcard.py: the Deck and  *)
(* Card tables, the request handlers that read and write them through the  *)
(* SQLAlchemy session, and the export / import document.                   *)
(*                                                                         *)
(* Each handler is an operator that gives the outcome of one request in    *)
(* the current state: the status of the response, what it carries, and the *)
(* tables the request leaves behind, after the lookup (get_or_404), the    *)
(* writes, the commit and the request teardown, which removes the session  *)
(* and with it every row that was flushed but not committed.  There is one *)
(* action per handler; it serves a request with any input and commits the  *)
(* outcome.  The pages home and decks write nothing and are left out.      *)
(*                                                                         *)
(* Deck.cards is declared without order_by.  The model reads it in the     *)
(* order of the primary keys, which is the order of a scan of the sqlite   *)
(* table and the order in which the cards were inserted.                   *)
(***************************************************************************)
EXTENDS FiniteSets, Integers, Sequences, TLC

----------------------------------------------------------------------------
(* Bounds of the model.  The program bounds neither the number of rows nor *)
(* the primary keys; the model serves a request only while the keys stay   *)
(* within these.                                                           *)

\* The largest primary key of the deck table.
MaxDeckId == 2
\* The largest primary key of the card table.
MaxCardId == 2

----------------------------------------------------------------------------
(* The state: the engine and the committed rows.  A response is part of    *)
(* a handler's outcome, not of the state.                                  *)

VARIABLES
    backend,    \* "sqlite" or "postgresql": the engine behind DATABASE_URL
    decks,      \* committed rows of the deck table: id -> [name]
    cards,      \* committed rows of the card table:
                \*   id -> [question, answer, mastered, deck_id]
    deckSeq,    \* last value of the deck id sequence (postgresql)
    cardSeq     \* last value of the card id sequence (postgresql)

vars == <<backend, decks, cards, deckSeq, cardSeq>>

----------------------------------------------------------------------------
(* Values submitted by the client.  Text is a sequence of characters, so   *)
(* that the empty text is <<>> and the file name operations are computed.  *)

EmptyText == <<>>
MyName == <<"m", " ", "y">>
Form(q, a) == [question |-> q, answer |-> a]

DeckNames == { EmptyText, MyName }
\* The question and the answer of a submitted card form.
Forms == { Form(<<"q">>, <<"a">>), Form(EmptyText, EmptyText) }
Methods == { "GET", "POST" }
Flags == { "true", "false" }
DeckIdArgs == 1..MaxDeckId
CardIdArgs == 1..MaxCardId

\* str.replace(' ', '_')
ReplaceSpaces(s) == [i \in 1..Len(s) |-> IF s[i] = " " THEN "_" ELSE s[i]]

JsonSuffix == <<".", "j", "s", "o", "n">>

\* str.endswith(suffix)
EndsWith(s, suffix) ==
    /\ Len(s) >= Len(suffix)
    /\ SubSeq(s, Len(s) - Len(suffix) + 1, Len(s)) = suffix

----------------------------------------------------------------------------
(* The database.                                                           *)

Backends == { "sqlite", "postgresql" }

Max(S) == CHOOSE x \in S : \A y \in S : y <= x

\* The primary key a new row gets.  An INTEGER PRIMARY KEY of sqlite is the
\* rowid, one more than the largest rowid in the table; a SERIAL of
\* postgresql takes the next value of its sequence, which no rollback and
\* no delete gives back.
NextId(ids, seq) ==
    IF backend = "sqlite" THEN Max(ids \cup {0}) + 1 ELSE seq + 1

\* The sequence after handing out `id`.
Advance(seq, id) == IF backend = "sqlite" THEN seq ELSE id

\* Deck.cards: the cards of deck d, in the order of their primary keys.
\* New keys are larger than every key in the table, so this is the order
\* in which the cards still in the deck were inserted.
RECURSIVE SortedSeq(_)
SortedSeq(S) ==
    IF S = {} THEN <<>>
    ELSE LET m == CHOOSE x \in S : \A y \in S : x <= y
         IN <<m>> \o SortedSeq(S \ {m})

DeckCardsOf(cs, d) == SortedSeq({ c \in DOMAIN cs : cs[c].deck_id = d })

\* As DeckCards, were the relationship not restricted to the deck's rows.
DeckCardsOfAnyDeck(d) == SortedSeq(DOMAIN cards)

DeckCards(d) == DeckCardsOf(cards, d)

\* sum(1 for card in deck.cards if card.mastered)
MasteredCountOf(cs, d) ==
    Cardinality({ c \in DOMAIN cs : cs[c].deck_id = d /\ cs[c].mastered })

MasteredCount(d) == MasteredCountOf(cards, d)

\* Adding and removing rows of a table held as a function.
Insert(table, id, row) ==
    [k \in DOMAIN table \cup {id} |-> IF k = id THEN row ELSE table[k]]

Remove(table, ids) == [k \in DOMAIN table \ ids |-> table[k]]

----------------------------------------------------------------------------
(* The interchange document.                                               *)
(*                                                                         *)
(* An uploaded or downloaded file is its name and its text.  The text is   *)
(* either not JSON at all or a JSON object; a member of the object that    *)
(* may be missing is a sequence of length 0 (missing) or 1 (present), and  *)
(* a JSON boolean is the literal "true" or "false".  The data json.load    *)
(* returns is a dict: a function whose domain is the keys present.         *)

Missing == <<>>
Member(v) == <<v>>
IsPresent(m) == Len(m) = 1
ValueOf(m) == m[1]

NoFile ==
    [present |-> FALSE, filename |-> EmptyText, parseable |-> FALSE,
     deck_name |-> Missing, cards |-> Missing]

JsonFile(fname, name, cs) ==
    [present |-> TRUE, filename |-> fname, parseable |-> TRUE,
     deck_name |-> name, cards |-> cs]

JsonEntry(q, a, m) == [question |-> q, answer |-> a, mastered |-> m]

\* json.dumps of a bool, and json.load of the literal.
DumpBool(b) == IF b THEN "true" ELSE "false"
LoadBool(lit) == lit = "true"

\* json.dumps(export_data): every key of the dict becomes a member.
JsonDumps(data) ==
    [deck_name |-> Member(data.deck_name),
     cards |-> Member([i \in 1..Len(data.cards) |->
                  JsonEntry(Member(data.cards[i].question),
                            Member(data.cards[i].answer),
                            Member(DumpBool(data.cards[i].mastered)))])]

\* json.load of one card object: the dict of the members present.
LoadEntry(e) ==
    [k \in { key \in {"question", "answer", "mastered"} : IsPresent(e[key]) } |->
        IF k = "mastered" THEN LoadBool(ValueOf(e[k])) ELSE ValueOf(e[k])]

\* json.load(file) of a parseable text: the dict of the members present.
JsonLoad(file) ==
    [k \in { key \in {"deck_name", "cards"} : IsPresent(file[key]) } |->
        IF k = "deck_name" THEN ValueOf(file.deck_name)
        ELSE [i \in 1..Len(ValueOf(file.cards)) |-> LoadEntry(ValueOf(file.cards)[i])]]

\* dict.get(key, default)
DictGet(d, key, default) == IF key \in DOMAIN d THEN d[key] ELSE default

\* The dict export_deck builds from the rows of deck d.
ExportData(d) ==
    [deck_name |-> decks[d].name,
     cards |-> [i \in 1..Len(DeckCards(d)) |->
                  [question |-> cards[DeckCards(d)[i]].question,
                   answer |-> cards[DeckCards(d)[i]].answer,
                   mastered |-> cards[DeckCards(d)[i]].mastered]]]

\* The file export_deck sends: the JSON text of ExportData, named after
\* the deck with spaces replaced by underscores.
ExportFile(d) ==
    LET text == JsonDumps(ExportData(d))
    IN JsonFile(ReplaceSpaces(decks[d].name) \o JsonSuffix,
                text.deck_name, text.cards)

\* Files a client makes by hand.
UploadName == <<"d">> \o JsonSuffix
GoodQ == Member(<<"q">>)
GoodA == Member(<<"a">>)
GoodName == Member(MyName)

\* Uploads import_deck cannot read: no file, no file name, a name that
\* does not end in .json, text that is not JSON, and documents that lack
\* deck_name, cards, the question of the second card, the answer of a card.
BrokenFiles ==
    { NoFile,
      [NoFile EXCEPT !.present = TRUE],
      [NoFile EXCEPT !.present = TRUE, !.filename = <<"d", ".", "t", "x", "t">>],
      [NoFile EXCEPT !.present = TRUE, !.filename = UploadName],
      JsonFile(UploadName, Missing, Member(<<>>)),
      JsonFile(UploadName, GoodName, Missing),
      JsonFile(UploadName, GoodName,
               Member(<<JsonEntry(GoodQ, GoodA, Member("true")),
                        JsonEntry(Missing, GoodA, Member("false"))>>)),
      JsonFile(UploadName, GoodName, Member(<<JsonEntry(GoodQ, Missing, Missing)>>)) }

\* Documents with every field: a deck without cards, and a card without
\* the optional mastered.
PlainFiles ==
    { JsonFile(UploadName, GoodName, Member(<<>>)),
      JsonFile(UploadName, GoodName, Member(<<JsonEntry(GoodQ, GoodA, Missing)>>)) }

\* Documents with an empty deck_name, an empty question, an empty answer.
EmptyTextFiles ==
    { JsonFile(UploadName, Member(EmptyText),
               Member(<<JsonEntry(GoodQ, GoodA, Member("false"))>>)),
      JsonFile(UploadName, GoodName,
               Member(<<JsonEntry(Member(EmptyText), GoodA, Member("false"))>>)),
      JsonFile(UploadName, GoodName,
               Member(<<JsonEntry(GoodQ, Member(EmptyText), Member("true"))>>)) }

CraftedFiles == BrokenFiles \cup PlainFiles \cup EmptyTextFiles

----------------------------------------------------------------------------
(* Responses.  A handler's outcome is the status of its response, what the *)
(* response carries, and the database the request leaves behind.           *)

NoBody == [mastered_count |-> 0, sequences |-> {}, file |-> NoFile]

Outcome(st, bd, ds, cs, dseq, cseq) ==
    [status |-> st, body |-> bd, decks |-> ds, cards |-> cs,
     deckSeq |-> dseq, cardSeq |-> cseq]

\* An outcome that leaves the database as it was.
Reply(st, bd) == Outcome(st, bd, decks, cards, deckSeq, cardSeq)

\* abort(404) of get_or_404
NotFound == Reply("NotFound", NoBody)

\* Deck.query.get_or_404 / Card.query.get_or_404
DeckExists(id) == id \in DOMAIN decks
CardExists(id) == id \in DOMAIN cards

\* The session: the rows as the request in progress sees them.
Store(ds, cs) == [decks |-> ds, cards |-> cs]

\* What the request teardown leaves in the database.  db = SQLAlchemy(app)
\* removes the session when the request ends; rows that were added or
\* flushed and never committed go with it, and the committed rows stay.
\* As SessionRemove, were the flushed rows committed when the request ends.
SessionKept(committed, session) == session

SessionRemove(committed, session) == committed

----------------------------------------------------------------------------
(* The handlers, each as the outcome of one request in the current state.  *)

CreateDeck(method, deck_name) ==
    IF method = "POST" THEN
        LET id == NextId(DOMAIN decks, deckSeq)
        IN Outcome("redirect", NoBody, Insert(decks, id, [name |-> deck_name]),
                   cards, Advance(deckSeq, id), cardSeq)
    ELSE Reply("ok", NoBody)

ViewDeck(deck_id) ==
    IF ~DeckExists(deck_id) THEN NotFound
    ELSE Reply("ok", [NoBody EXCEPT !.mastered_count = MasteredCount(deck_id)])

\* As AddCard, without the get_or_404 of the deck.
AddCardUnchecked(deck_id, method, question, answer) ==
    IF method = "POST" THEN
        LET id == NextId(DOMAIN cards, cardSeq)
            new_card == [question |-> question, answer |-> answer,
                         mastered |-> FALSE, deck_id |-> deck_id]
        IN Outcome("redirect", NoBody, decks, Insert(cards, id, new_card),
                   deckSeq, Advance(cardSeq, id))
    ELSE Reply("ok", NoBody)

AddCard(deck_id, method, question, answer) ==
    IF ~DeckExists(deck_id) THEN NotFound
    ELSE IF method = "POST" THEN
        LET id == NextId(DOMAIN cards, cardSeq)
            new_card == [question |-> question, answer |-> answer,
                         mastered |-> FALSE, deck_id |-> deck_id]
        IN Outcome("redirect", NoBody, decks, Insert(cards, id, new_card),
                   deckSeq, Advance(cardSeq, id))
    ELSE Reply("ok", NoBody)

\* As EditCard, were the line that negates mastered copied into it.
EditCardToggling(card_id, method, question, answer) ==
    IF ~CardExists(card_id) THEN NotFound
    ELSE IF method = "POST" THEN
        Outcome("redirect", NoBody, decks,
                [cards EXCEPT ![card_id].question = question,
                              ![card_id].answer = answer,
                              ![card_id].mastered = ~cards[card_id].mastered],
                deckSeq, cardSeq)
    ELSE Reply("ok", NoBody)

EditCard(card_id, method, question, answer) ==
    IF ~CardExists(card_id) THEN NotFound
    ELSE IF method = "POST" THEN
        Outcome("redirect", NoBody, decks,
                [cards EXCEPT ![card_id].question = question,
                              ![card_id].answer = answer],
                deckSeq, cardSeq)
    ELSE Reply("ok", NoBody)

\* As Toggled, were the flag set instead of negated.
MarkedMastered(card) == [card EXCEPT !.mastered = TRUE]

\* card.mastered = not card.mastered
Toggled(card) == [card EXCEPT !.mastered = ~card.mastered]

ToggleMastered(card_id) ==
    IF ~CardExists(card_id) THEN NotFound
    ELSE Outcome("redirect", NoBody, decks,
                 [cards EXCEPT ![card_id] = Toggled(cards[card_id])],
                 deckSeq, cardSeq)

\* The cards of `seq` (ids, in order) that are not mastered.
RECURSIVE Unmastered(_)
Unmastered(seq) ==
    IF seq = <<>> THEN <<>>
    ELSE IF cards[Head(seq)].mastered THEN Unmastered(Tail(seq))
    ELSE <<Head(seq)>> \o Unmastered(Tail(seq))

\* Every reordering of seq.
Shuffles(seq) ==
    { [i \in 1..Len(seq) |-> seq[p[i]]] :
        p \in { f \in [1..Len(seq) -> 1..Len(seq)] :
                  \A i, j \in 1..Len(seq) : f[i] = f[j] => i = j } }

\* selectStudySequence: the sequences the study page may show for the
\* cards `seq` of a deck: filter first, then shuffle.
SelectStudySequence(seq, shuffle, onlyUnmastered) ==
    LET eligible == IF onlyUnmastered THEN Unmastered(seq) ELSE seq
    IN IF shuffle THEN Shuffles(eligible) ELSE { eligible }

\* As Study, were the two query strings read into each other's variable.
StudySwapped(deck_id, shuffle, only_unmastered) ==
    IF ~DeckExists(deck_id) THEN NotFound
    ELSE Reply("ok", [NoBody EXCEPT !.sequences =
                        SelectStudySequence(DeckCards(deck_id),
                                            only_unmastered = "true",
                                            shuffle = "true")])

\* The route hands the deck and the two query strings to the template,
\* which selects the cards to show.
Study(deck_id, shuffle, only_unmastered) ==
    IF ~DeckExists(deck_id) THEN NotFound
    ELSE Reply("ok", [NoBody EXCEPT !.sequences =
                        SelectStudySequence(DeckCards(deck_id), shuffle = "true",
                                            only_unmastered = "true")])

ExportDeck(deck_id) ==
    IF ~DeckExists(deck_id) THEN NotFound
    ELSE Reply("ok", [NoBody EXCEPT !.file = ExportFile(deck_id)])

\* As NewCard, were mastered left to the default of the column.
NewCardUnmastered(card_data, deckId) ==
    [question |-> card_data["question"], answer |-> card_data["answer"],
     mastered |-> FALSE, deck_id |-> deckId]

\* The Card import_deck makes of one entry of the document.
NewCard(card_data, deckId) ==
    [question |-> card_data["question"], answer |-> card_data["answer"],
     mastered |-> DictGet(card_data, "mastered", FALSE), deck_id |-> deckId]

\* The card rows the loop of import_deck adds for entries i..Len(entries)
\* and the commit inserts, each with the next primary key of the card
\* table, starting from table `cs` and sequence value `seq`.
RECURSIVE AddCards(_, _, _, _, _)
AddCards(cs, seq, entries, i, deckId) ==
    IF i > Len(entries) THEN [cards |-> cs, cardSeq |-> seq]
    ELSE LET id == NextId(DOMAIN cs, seq)
         IN AddCards(Insert(cs, id, NewCard(entries[i], deckId)),
                     Advance(seq, id), entries, i + 1, deckId)

\* card_data['question'] or card_data['answer'] raises KeyError.
EntryRaises(entry) == "question" \notin DOMAIN entry \/ "answer" \notin DOMAIN entry

\* The try block of import_deck for a file whose text is JSON.
ImportJson(file) ==
    LET data == JsonLoad(file) IN
    IF "deck_name" \notin DOMAIN data THEN
        \* data['deck_name'] raises KeyError
        Reply("error", NoBody)
    ELSE
        LET deckId == NextId(DOMAIN decks, deckSeq)
            \* db.session.add(new_deck); db.session.flush()
            flushed == Store(Insert(decks, deckId, [name |-> data["deck_name"]]), cards)
            dseq == Advance(deckSeq, deckId)
            \* what is left when the except clause has returned the message
            left == SessionRemove(Store(decks, cards), flushed)
        IN
        IF "cards" \notin DOMAIN data THEN
            \* data['cards'] raises KeyError after the flush
            Outcome("error", NoBody, left.decks, left.cards, dseq, cardSeq)
        ELSE IF \E i \in 1..Len(data["cards"]) : EntryRaises(data["cards"][i]) THEN
            \* the loop raises KeyError at the first such entry; the cards
            \* added before it are pending in the session, not inserted
            Outcome("error", NoBody, left.decks, left.cards, dseq, cardSeq)
        ELSE
            \* db.session.commit()
            LET added == AddCards(cards, cardSeq, data["cards"], 1, deckId)
            IN Outcome("redirect", NoBody, flushed.decks, added.cards,
                       dseq, added.cardSeq)

ImportDeck(method, file) ==
    IF method # "POST" THEN Reply("ok", NoBody)
    ELSE IF ~file.present THEN
        \* 'file' not in request.files
        Reply("redirect", NoBody)
    ELSE IF file.filename = EmptyText THEN Reply("redirect", NoBody)
    ELSE IF ~EndsWith(file.filename, JsonSuffix) THEN
        \* falls through to render_template('import_deck.html')
        Reply("ok", NoBody)
    ELSE IF ~file.parseable THEN
        \* json.load raises
        Reply("error", NoBody)
    ELSE ImportJson(file)

\* As Cascade, were the relationship declared without a cascade.
NoCascade(deck_id) == {}

\* cascade='all, delete-orphan': the cards db.session.delete(deck) deletes
\* along with the deck.
Cascade(deck_id) == { c \in DOMAIN cards : cards[c].deck_id = deck_id }

DeleteDeck(deck_id) ==
    IF ~DeckExists(deck_id) THEN NotFound
    ELSE Outcome("redirect", NoBody, Remove(decks, {deck_id}),
                 Remove(cards, Cascade(deck_id)), deckSeq, cardSeq)

DeleteCard(card_id) ==
    IF ~CardExists(card_id) THEN NotFound
    ELSE Outcome("redirect", NoBody, decks, Remove(cards, {card_id}),
                 deckSeq, cardSeq)

----------------------------------------------------------------------------
(* The state machine: one action per handler.                              *)

Init ==
    /\ backend \in Backends
    /\ decks = <<>>
    /\ cards = <<>>
    /\ deckSeq = 0
    /\ cardSeq = 0

\* The model serves a request only while the primary keys stay within
\* bounds.
InBounds(out) ==
    /\ DOMAIN out.decks \subseteq 1..MaxDeckId
    /\ DOMAIN out.cards \subseteq 1..MaxCardId
    /\ out.deckSeq <= MaxDeckId
    /\ out.cardSeq <= MaxCardId

\* The request is served and leaves `out` behind.
Serve(out) ==
    /\ decks' = out.decks
    /\ cards' = out.cards
    /\ deckSeq' = out.deckSeq
    /\ cardSeq' = out.cardSeq
    /\ UNCHANGED backend

\* The files a client may upload: made by hand, or the export of a deck.
Uploads == CraftedFiles \cup { ExportFile(d) : d \in DOMAIN decks }

create_deck ==
    \E method \in Methods, deck_name \in DeckNames :
      /\ InBounds(CreateDeck(method, deck_name))
      /\ Serve(CreateDeck(method, deck_name))

view_deck ==
    \E deck_id \in DeckIdArgs :
      /\ InBounds(ViewDeck(deck_id))
      /\ Serve(ViewDeck(deck_id))

add_card ==
    \E deck_id \in DeckIdArgs, method \in Methods, form \in Forms :
      /\ InBounds(AddCard(deck_id, method, form.question, form.answer))
      /\ Serve(AddCard(deck_id, method, form.question, form.answer))

edit_card ==
    \E card_id \in CardIdArgs, method \in Methods, form \in Forms :
      /\ InBounds(EditCard(card_id, method, form.question, form.answer))
      /\ Serve(EditCard(card_id, method, form.question, form.answer))

toggle_mastered ==
    \E card_id \in CardIdArgs :
      /\ InBounds(ToggleMastered(card_id))
      /\ Serve(ToggleMastered(card_id))

study ==
    \E deck_id \in DeckIdArgs, shuffle \in Flags, only_unmastered \in Flags :
      /\ InBounds(Study(deck_id, shuffle, only_unmastered))
      /\ Serve(Study(deck_id, shuffle, only_unmastered))

export_deck ==
    \E deck_id \in DeckIdArgs :
      /\ InBounds(ExportDeck(deck_id))
      /\ Serve(ExportDeck(deck_id))

import_deck ==
    \E method \in Methods, file \in Uploads :
      /\ InBounds(ImportDeck(method, file))
      /\ Serve(ImportDeck(method, file))

delete_deck ==
    \E deck_id \in DeckIdArgs :
      /\ InBounds(DeleteDeck(deck_id))
      /\ Serve(DeleteDeck(deck_id))

delete_card ==
    \E card_id \in CardIdArgs :
      /\ InBounds(DeleteCard(card_id))
      /\ Serve(DeleteCard(card_id))

Next ==
    \/ create_deck
    \/ view_deck
    \/ add_card
    \/ edit_card
    \/ toggle_mastered
    \/ study
    \/ export_deck
    \/ import_deck
    \/ delete_deck
    \/ delete_card

Spec == Init /\ [][Next]_vars

----------------------------------------------------------------------------
(* What the claims speak of.                                               *)

\* Ids a request may name: those the model hands out and one it never does.
AnyDeckId == 1..(MaxDeckId + 1)
AnyCardId == 1..(MaxCardId + 1)

\* The outcome leaves every table and sequence as it is in this state.
Untouched(out) ==
    /\ out.decks = decks
    /\ out.cards = cards
    /\ out.deckSeq = deckSeq
    /\ out.cardSeq = cardSeq

\* This step serves a request with outcome `out`.
StepOf(out) ==
    /\ decks' = out.decks
    /\ cards' = out.cards
    /\ deckSeq' = out.deckSeq
    /\ cardSeq' = out.cardSeq

\* The (question, answer, mastered) triples of deck d in table cs, in order.
Triples(cs, d) ==
    [i \in 1..Len(DeckCardsOf(cs, d)) |->
        <<cs[DeckCardsOf(cs, d)[i]].question,
          cs[DeckCardsOf(cs, d)[i]].answer,
          cs[DeckCardsOf(cs, d)[i]].mastered>>]

\* The cards that belong to deck d.
CardsIn(d) == { c \in DOMAIN cards : cards[c].deck_id = d }

\* The elements of a sequence, and how often x occurs in it.
Range(seq) == { seq[i] : i \in 1..Len(seq) }
Count(seq, x) == Cardinality({ i \in 1..Len(seq) : seq[i] = x })

----------------------------------------------------------------------------
(* C1: importing the file export_deck sends for a deck d creates one new   *)
(* deck with d's name and d's (question, answer, mastered) triples in d's  *)
(* order; the id of the new deck and the ids of its cards are ids of no    *)
(* deck and no card that exists when the file is imported.                 *)

\* The import of `file` created deck nd as a copy of deck d.
IsCopy(out, nd, d) ==
    /\ nd \notin DOMAIN decks
    /\ DOMAIN out.decks = DOMAIN decks \cup {nd}
    /\ out.decks[nd].name = decks[d].name
    /\ Triples(out.cards, nd) = Triples(cards, d)
    /\ Range(DeckCardsOf(out.cards, nd)) \cap DOMAIN cards = {}
    /\ DOMAIN out.cards = DOMAIN cards \cup Range(DeckCardsOf(out.cards, nd))

\* C1: the import of the export of any deck d makes a copy of d under ids
\* that no existing deck or card has.
RoundTrip ==
    \A d \in DOMAIN decks :
      LET out == ImportDeck("POST", ExportDeck(d).body.file)
      IN /\ out.status = "redirect"
         /\ \E nd \in DOMAIN out.decks : IsCopy(out, nd, d)

\* A deck of two cards that differ in text and in mastered, the first one
\* mastered, whose export is imported as a deck of two new cards.
RoundTripWitness ==
    \E d \in DOMAIN decks :
      /\ Len(DeckCards(d)) = 2
      /\ cards[DeckCards(d)[1]].mastered
      /\ ~cards[DeckCards(d)[2]].mastered
      /\ cards[DeckCards(d)[1]].question # cards[DeckCards(d)[2]].question
      /\ decks[d].name # EmptyText
      /\ LET out == ImportDeck("POST", ExportDeck(d).body.file)
         IN \E nd \in DOMAIN out.decks :
              IsCopy(out, nd, d) /\ Len(DeckCardsOf(out.cards, nd)) = 2

----------------------------------------------------------------------------
(* C2: an import that fails leaves the deck table and the card table as    *)
(* they were, and an upload whose document lacks cards, or has a card      *)
(* entry at any position without question or answer, fails.                *)

\* A file import_deck parses as JSON.
IsDocument(file) ==
    file.present /\ EndsWith(file.filename, JsonSuffix) /\ file.parseable

\* The card entries of a document.
Entries(file) == IF IsPresent(file.cards) THEN ValueOf(file.cards) ELSE <<>>

\* The document lacks cards, or one of its entries lacks question or answer.
LacksField(file) ==
    /\ IsDocument(file)
    /\ \/ ~IsPresent(file.cards)
       \/ \E i \in 1..Len(Entries(file)) :
            ~IsPresent(Entries(file)[i].question) \/ ~IsPresent(Entries(file)[i].answer)

\* C2: an upload that lacks a field fails, and a failed import leaves the
\* decks and the cards as they were.
ImportAllOrNothing ==
    \A file \in Uploads :
      LET out == ImportDeck("POST", file)
      IN /\ LacksField(file) => out.status = "error"
         /\ out.status = "error" => out.decks = decks /\ out.cards = cards

\* A database with a deck and a card, where the import of a document whose
\* second entry lacks its question fails after the new deck was flushed
\* (the deck id sequence has moved).
ImportAllOrNothingWitness ==
    /\ DOMAIN decks # {}
    /\ DOMAIN cards # {}
    /\ \E file \in Uploads :
         /\ LacksField(file)
         /\ Len(Entries(file)) = 2
         /\ IsPresent(Entries(file)[1].question)
         /\ ~IsPresent(Entries(file)[2].question)
         /\ ImportDeck("POST", file).status = "error"
         /\ ImportDeck("POST", file).deckSeq > deckSeq

----------------------------------------------------------------------------
(* C3: every card references a deck that exists; a delete-deck that        *)
(* succeeds removes the deck and every card that belonged to it, and in    *)
(* the state it leaves the lookups of the deck and of those cards answer   *)
(* NotFound.                                                               *)

NoOrphans == \A c \in DOMAIN cards : cards[c].deck_id \in DOMAIN decks

\* In the state after the step, the deck and its cards are gone.
GoneAfter(d, cs) ==
    /\ d \notin DOMAIN decks'
    /\ cs \cap DOMAIN cards' = {}
    /\ (ViewDeck(d).status = "NotFound")'
    /\ (ExportDeck(d).status = "NotFound")'
    /\ \A c \in cs :
         /\ (EditCard(c, "GET", EmptyText, EmptyText).status = "NotFound")'
         /\ (ToggleMastered(c).status = "NotFound")'
         /\ (DeleteCard(c).status = "NotFound")'

\* C3: no card is ever without its deck, and a delete-deck leaves neither
\* the deck nor its cards to be found.
NoOrphanCards ==
    /\ []NoOrphans
    /\ [][\A d \in DOMAIN decks :
            StepOf(DeleteDeck(d)) => GoneAfter(d, CardsIn(d)) /\ NoOrphans']_vars

\* Two decks with a card each: deleting one deck takes its card and leaves
\* the other deck with its card.
NoOrphanCardsWitness ==
    \E d, e \in DOMAIN decks :
      /\ d # e
      /\ CardsIn(d) # {}
      /\ CardsIn(e) # {}
      /\ DOMAIN DeleteDeck(d).cards = CardsIn(e)
      /\ DOMAIN DeleteDeck(d).decks = DOMAIN decks \ {d}

----------------------------------------------------------------------------
(* C4: an import whose document has an empty deck_name, or an entry with   *)
(* an empty question or an empty answer, is rejected and creates no deck   *)
(* and no card; an entry without mastered is accepted and its card has     *)
(* mastered = false.                                                       *)

\* A document with every required field, one of them the empty text.
HasEmptyText(file) ==
    /\ IsDocument(file)
    /\ IsPresent(file.deck_name)
    /\ IsPresent(file.cards)
    /\ ~LacksField(file)
    /\ \/ ValueOf(file.deck_name) = EmptyText
       \/ \E i \in 1..Len(Entries(file)) :
            \/ ValueOf(Entries(file)[i].question) = EmptyText
            \/ ValueOf(Entries(file)[i].answer) = EmptyText

\* A document with every required field, none of them empty, and an entry
\* without mastered.
OmitsMastered(file) ==
    /\ IsDocument(file)
    /\ IsPresent(file.deck_name)
    /\ IsPresent(file.cards)
    /\ ~LacksField(file)
    /\ ~HasEmptyText(file)
    /\ \E i \in 1..Len(Entries(file)) : ~IsPresent(Entries(file)[i].mastered)

\* The cards the outcome adds to the card table.
NewCards(out) == DOMAIN out.cards \ DOMAIN cards

\* C4: a step that imports a document with an empty text is an error and
\* writes nothing; a step that imports an entry without mastered makes a
\* card of it that is not mastered.
ImportValidates ==
    [][\A file \in Uploads :
         LET out == ImportDeck("POST", file)
         IN StepOf(out) =>
              /\ HasEmptyText(file) =>
                   out.status = "error" /\ decks' = decks /\ cards' = cards
              /\ OmitsMastered(file) =>
                   /\ out.status = "redirect"
                   /\ \A i \in 1..Len(Entries(file)) :
                        ~IsPresent(Entries(file)[i].mastered) =>
                          \E c \in NewCards(out) :
                            /\ cards'[c].question = ValueOf(Entries(file)[i].question)
                            /\ ~cards'[c].mastered]_vars

----------------------------------------------------------------------------
(* C5: a request that names a deck or a card that does not exist is        *)
(* answered NotFound and leaves every table and sequence as it was.        *)

Refused(out) == out.status = "NotFound" /\ Untouched(out)

\* C5: every handler refuses an id that does not exist, for every input.
NotFoundChangesNothing ==
    /\ \A d \in AnyDeckId :
         ~DeckExists(d) =>
           /\ Refused(ViewDeck(d))
           /\ Refused(ExportDeck(d))
           /\ Refused(DeleteDeck(d))
           /\ \A method \in Methods, form \in Forms :
                Refused(AddCard(d, method, form.question, form.answer))
           /\ \A shuffle \in Flags, only_unmastered \in Flags :
                Refused(Study(d, shuffle, only_unmastered))
    /\ \A c \in AnyCardId :
         ~CardExists(c) =>
           /\ Refused(ToggleMastered(c))
           /\ Refused(DeleteCard(c))
           /\ \A method \in Methods, form \in Forms :
                Refused(EditCard(c, method, form.question, form.answer))

\* A deck with a card exists, and a request names a deck and a card, both
\* deleted before, that do not.
NotFoundChangesNothingWitness ==
    /\ \E d \in DOMAIN decks : CardsIn(d) # {}
    /\ \E d \in DeckIdArgs : ~DeckExists(d) /\ d <= deckSeq /\ Refused(DeleteDeck(d))
    /\ \E c \in CardIdArgs : ~CardExists(c) /\ c <= cardSeq /\ Refused(ToggleMastered(c))

----------------------------------------------------------------------------
(* C6: with shuffle=false and unmastered=true the study page shows exactly *)
(* the cards of the deck that are not mastered, each once, in the order of *)
(* the deck; a deck with no such card gets the empty sequence, not an      *)
(* error.                                                                  *)

\* The cards of deck d that are not mastered.
UnmasteredOf(d) == { c \in DOMAIN cards : cards[c].deck_id = d /\ ~cards[c].mastered }

\* seq holds each card of S once, in ascending order of insertion.
InDeckOrder(seq, S) ==
    /\ Len(seq) = Cardinality(S)
    /\ Range(seq) = S
    /\ \A i, j \in 1..Len(seq) : i < j => seq[i] < seq[j]

\* C6: the one sequence shown for shuffle=false, unmastered=true is the
\* unmastered cards of the deck in deck order, empty when there is none.
StudyUnmasteredInOrder ==
    \A d \in DOMAIN decks :
      LET out == Study(d, "false", "true")
      IN /\ out.status = "ok"
         /\ Cardinality(out.body.sequences) = 1
         /\ \A shown \in out.body.sequences : InDeckOrder(shown, UnmasteredOf(d))
         /\ UnmasteredOf(d) = {} => out.body.sequences = { <<>> }

\* A deck whose first card is mastered and whose second is not: the page
\* shows the second card alone.
StudyUnmasteredInOrderWitness ==
    \E d \in DOMAIN decks :
      /\ Len(DeckCards(d)) = 2
      /\ cards[DeckCards(d)[1]].mastered
      /\ ~cards[DeckCards(d)[2]].mastered
      /\ Study(d, "false", "true").body.sequences = { <<DeckCards(d)[2]>> }

----------------------------------------------------------------------------
(* C7: with shuffle=true the study page shows a reordering of what it      *)
(* shows with shuffle=false for the same unmastered flag: the same cards,  *)
(* each as often, and as many.                                             *)

IsReordering(s, t) ==
    /\ Len(s) = Len(t)
    /\ \A x \in Range(s) \cup Range(t) : Count(s, x) = Count(t, x)

\* C7: every sequence shown for shuffle=true is a reordering of the one
\* shown for shuffle=false with the same unmastered flag.
ShuffleReorders ==
    \A d \in DOMAIN decks, only_unmastered \in Flags :
      LET shuffled == Study(d, "true", only_unmastered).body.sequences
          plain == Study(d, "false", only_unmastered).body.sequences
      IN /\ shuffled # {}
         /\ \A s \in shuffled, t \in plain : IsReordering(s, t)

\* A deck of two cards, one of them mastered: shuffled, its cards come in
\* either order, and its unmastered cards are the one card.
ShuffleReordersWitness ==
    \E d \in DOMAIN decks :
      /\ Len(DeckCards(d)) = 2
      /\ Cardinality(UnmasteredOf(d)) = 1
      /\ Cardinality(Study(d, "true", "false").body.sequences) = 2
      /\ Cardinality(Study(d, "true", "true").body.sequences) = 1

----------------------------------------------------------------------------
(* C8: serving the same request a second time, right after the first,      *)
(* leaves the database as the first left it: stated of edit-card,          *)
(* toggle-mastered, delete-card and delete-deck.                           *)

\* After a step that serves the request, its outcome in the state the step
\* leaves is to change nothing.
EditRetry(c, form) ==
    StepOf(EditCard(c, "POST", form.question, form.answer)) =>
      Untouched(EditCard(c, "POST", form.question, form.answer))'

ToggleRetry(c) == StepOf(ToggleMastered(c)) => Untouched(ToggleMastered(c))'

DeleteCardRetry(c) == StepOf(DeleteCard(c)) => Untouched(DeleteCard(c))'

DeleteDeckRetry(d) == StepOf(DeleteDeck(d)) => Untouched(DeleteDeck(d))'

\* The step writes to a table.  A step that writes nothing leaves the state
\* it was served in, where the same request has the same outcome again.
Writes == decks' # decks \/ cards' # cards

\* C8, as stated: after a step of edit-card, toggle-mastered, delete-card
\* or delete-deck, the same request again changes nothing.
RetryChangesNothing ==
    [][Writes =>
         /\ \A c \in DOMAIN cards, form \in Forms : EditRetry(c, form)
         /\ \A c \in DOMAIN cards : ToggleRetry(c)
         /\ \A c \in DOMAIN cards : DeleteCardRetry(c)
         /\ \A d \in DOMAIN decks : DeleteDeckRetry(d)]_vars

\* C8, amended: after a step of edit-card, delete-card or delete-deck, the
\* same request again changes nothing.
RetryChangesNothingButToggle ==
    [][Writes =>
         /\ \A c \in DOMAIN cards, form \in Forms : EditRetry(c, form)
         /\ \A c \in DOMAIN cards : DeleteCardRetry(c)
         /\ \A d \in DOMAIN decks : DeleteDeckRetry(d)]_vars

\* A card that an edit has given the empty texts, where the same edit again
\* changes nothing, and a card and a deck, deleted before, whose delete
\* again is answered NotFound.
RetryWitness ==
    /\ \E c \in DOMAIN cards :
         /\ cards[c].question = EmptyText
         /\ cards[c].mastered
         /\ Untouched(EditCard(c, "POST", EmptyText, EmptyText))
    /\ \E c \in CardIdArgs : c <= cardSeq /\ Refused(DeleteCard(c))
    /\ \E d \in DeckIdArgs : d <= deckSeq /\ Refused(DeleteDeck(d))

----------------------------------------------------------------------------
(* C9: every deck has a non-empty name and every card a non-empty question *)
(* and a non-empty answer.                                                 *)

\* C9: no deck has the empty name, no card the empty question or answer.
NonEmptyTexts ==
    /\ \A d \in DOMAIN decks : decks[d].name # EmptyText
    /\ \A c \in DOMAIN cards :
         cards[c].question # EmptyText /\ cards[c].answer # EmptyText

----------------------------------------------------------------------------
(* C10: toggle-mastered on a card that exists negates its mastered flag    *)
(* and changes nothing else, so the mastered count of its deck changes by  *)
(* exactly one and the mastered count of every other deck stays.           *)

\* C10: the outcome of toggle-mastered on any existing card differs from
\* the state in that card's mastered flag alone.
ToggleFrame ==
    \A c \in DOMAIN cards :
      LET out == ToggleMastered(c)
          own == cards[c].deck_id
      IN /\ out.status = "redirect"
         /\ out.decks = decks
         /\ out.deckSeq = deckSeq /\ out.cardSeq = cardSeq
         /\ DOMAIN out.cards = DOMAIN cards
         /\ out.cards[c].mastered = ~cards[c].mastered
         /\ out.cards[c].question = cards[c].question
         /\ out.cards[c].answer = cards[c].answer
         /\ out.cards[c].deck_id = own
         /\ \A o \in DOMAIN cards \ {c} : out.cards[o] = cards[o]
         /\ MasteredCountOf(out.cards, own) =
              (IF cards[c].mastered THEN MasteredCount(own) - 1
               ELSE MasteredCount(own) + 1)
         /\ \A d \in DOMAIN decks \ {own} :
              MasteredCountOf(out.cards, d) = MasteredCount(d)

\* A mastered card and a card that is not, in two decks: toggling the
\* mastered one takes its deck's count from one to zero.
ToggleFrameWitness ==
    \E c, o \in DOMAIN cards :
      /\ cards[c].deck_id # cards[o].deck_id
      /\ cards[c].mastered
      /\ ~cards[o].mastered
      /\ MasteredCount(cards[c].deck_id) = 1
      /\ MasteredCountOf(ToggleMastered(c).cards, cards[c].deck_id) = 0

====
